---- MODULE Spec2Model ----
(***************************************************************************)
(* IntelTracker (src/IntelTracker/agent.py): the change-detection cache,   *)
(* the monitoring engine (monitor_competitor / monitor_all) and the trend  *)
(* store (TrendAnalyzer.record_finding).                                   *)
(*                                                                         *)
(* Text is modelled as a sequence of one-character strings, so slicing     *)
(* (content[:100]) and concatenation (f"{title}{content}") are computed as *)
(* the code computes them.  The three JSON files of the data directory are *)
(* the variables competitorsFile, cacheFile and trendsFile.                *)
(***************************************************************************)
EXTENDS Integers, Sequences, FiniteSets, TLC

(* ----------------------------- bounds ---------------------------------- *)
\* tool calls and loop iterations explored by Spec (each advances the clock)
MaxClock == 3
\* record_finding calls explored by SpecTrend
MaxRecCalls == 52
\* record_finding calls of SpecTrend whose entity and analysis are free
FreeCalls == 3
\* length of the longest candidate list handed to the detector in SpecCache
LongLen == 101
\* record_finding calls of the two threads together
MaxRaceCalls == 3
\* elements a long page has beyond a limit or cap of the extractor
Beyond == 2

(* ------------------------ program constants ---------------------------- *)
\* update.content[:100] in the fingerprint
PrefixLen == 100
\* update_hashes[:100] in _update_cache
CacheLimit == 100
\* history[-50:] in record_finding
HistoryLimit == 50
\* len(word) > 4 in record_finding
MinTermLen == 4
\* unique_containers[:20] in _extract_structured_content
ContainerLimit == 20
\* find_all(['h1', 'h2', 'h3', 'h4'], limit=25)
HeadingLimit == 25
\* "if len(updates) < 3" before the second tier of both extractions
TierTwoBelow == 3
\* "if len(updates) < 2" before the third tier of both extractions
TierThreeBelow == 2
\* updates[:20] of _extract_structured_content
StructuredCap == 20
\* find_all(['h1', 'h2', 'h3', 'h4', 'h5'], limit=30)
AllHeadingLimit == 30
\* find_all('p', limit=30)
ParagraphLimit == 30
\* find_all('div', limit=50)
DivLimit == 50
\* updates[:15] of _aggressive_extraction
AggressiveCap == 15
\* history[-10:] in get_competitor_trends
RecentWindow == 10
\* "len(history) >= 20" and history[-20:-10] in get_competitor_trends
TrendWindow == 20
\* [:5] of recent_focus
FocusLimit == 5
\* feed.entries[:10] in extract_from_rss
FeedLimit == 10
\* summary[:800] in extract_from_rss
FeedContentCap == 800
\* title[:250] of every page Update
TitleCap == 250
\* ' '.join(content_parts)[:1200] and content[:1200]
ContentCap == 1200
\* "len(title) < 5" in _extract_from_container and _extract_from_heading
MinTitleLen == 5
\* "len(text) < 10" in _extract_from_container and _extract_from_list_item
MinElementText == 10
\* "len(text) > 15" for a content part
MinPartLen == 15
\* "len(content) < 20" and "len(title) < 20"
MinContentLen == 20
\* container.find_all(['p', 'li', 'div', 'span'], limit=10)
PartLimit == 10
\* heading.find_next_siblings([...], limit=6)
SiblingLimit == 6
\* "len(sentences[0]) > 10" in _extract_from_list_item
SentenceMin == 10
\* text[:100] in _extract_from_list_item
ShortTitleCap == 100
\* "len(text) >= 10" of a heading or a bold title in _aggressive_extraction
AggTitleMin == 10
\* "len(text) <= 300" of a heading in _aggressive_extraction
AggHeadingMax == 300
\* heading.find_next_siblings(['p', 'div', 'span'], limit=3)
AggSiblingLimit == 3
\* [:800] of the contents of _aggressive_extraction
AggContentCap == 800
\* "len(title) <= 200" of a bold title
BoldTitleMax == 200
\* "20 <= len(text)" of a div
DivTextMin == 20
\* "len(text) <= 500" of a div
DivTextMax == 500
\* text.split()[:15]
TitleWords == 15
\* data['Abstract'][:1000]
AbstractCap == 1000
\* data.get('RelatedTopics', [])[:3]
TopicLimit == 3
\* topic['Text'].split(' - ')[0][:200]
TopicTitleCap == 200
\* topic['Text'][:800]
TopicCap == 800
\* MonitoringConfig.max_updates_per_competitor
max_updates_per_competitor == 5
\* "if (not updates or len(updates) < 3)" in monitor_competitor
FeedEnough == 3

(* ----------------------------- helpers --------------------------------- *)
Range(s) == {s[i] : i \in DOMAIN s}

\* Python s[:n]
Take(s, n) == SubSeq(s, 1, IF Len(s) < n THEN Len(s) ELSE n)

\* Python s[-n:] (n > 0)
LastN(s, n) == SubSeq(s, IF Len(s) > n THEN Len(s) - n + 1 ELSE 1, Len(s))

\* dict.get(key, default)
Get(d, key, default) == IF key \in DOMAIN d THEN d[key] ELSE default

\* d[key] = value on a dict
Put(d, key, value) == [k \in DOMAIN d \cup {key} |-> IF k = key THEN value ELSE d[k]]

EmptyDict == [k \in {} |-> {}]

(* ------------------------------ Update --------------------------------- *)
\* Update(title, content, ...): the fields the cache and the engine read
MkUpdate(title, content) == [title |-> title, content |-> content]

\* hashlib.md5(f"{title}{content[:100]}".encode()).hexdigest(); the digest is
\* taken as injective on its input string, so the input string stands for it
Fingerprint(u) == u.title \o Take(u.content, PrefixLen)

\* cache_key = f"competitor_{competitor_name}"
CacheKey(name) == <<"competitor_", name>>

(* -------------------------- change detector ---------------------------- *)
\* _filter_new_updates with seen_hashes taken from every entry of the cache
_filter_new_updates_any_entry(cache, name, updates) ==
    LET seen_hashes == UNION {Range(cache[k]) : k \in DOMAIN cache}
    IN  SelectSeq(updates, LAMBDA update : Fingerprint(update) \notin seen_hashes)

\* MonitoringEngine._filter_new_updates: the loop appends, in input order,
\* each update whose hash is not in seen_hashes; it reads self.cache and
\* changes nothing
_filter_new_updates(cache, name, updates) ==
    LET seen_hashes == Range(Get(cache, CacheKey(name), <<>>))
    IN  SelectSeq(updates, LAMBDA update : Fingerprint(update) \notin seen_hashes)

\* the list comprehension of _update_cache
UpdateHashes(updates) == [i \in DOMAIN updates |-> Fingerprint(updates[i])]

\* _update_cache without the [:100] slice
_update_cache_unbounded(cache, name, updates) ==
    Put(cache, CacheKey(name), UpdateHashes(updates))

\* MonitoringEngine._update_cache: the new self.cache, which save_cache writes
_update_cache(cache, name, updates) ==
    Put(cache, CacheKey(name), Take(UpdateHashes(updates), CacheLimit))

(* ------------------------------ text ----------------------------------- *)
\* str.lower() on the characters the analyses use
LowerChar(c) ==
    CASE c = "S" -> "s"
      [] c = "U" -> "u"
      [] OTHER -> c

\* word.lower()
Lower(w) == [i \in DOMAIN w |-> LowerChar(w[i])]

RECURSIVE SplitLoop(_, _, _)
SplitLoop(s, word, acc) ==
    IF s = <<>> THEN (IF word = <<>> THEN acc ELSE Append(acc, word))
    ELSE IF Head(s) = " "
         THEN SplitLoop(Tail(s), <<>>, IF word = <<>> THEN acc ELSE Append(acc, word))
         ELSE SplitLoop(Tail(s), Append(word, Head(s)), acc)

\* feature.split(): the whitespace-separated words, in order
Split(s) == SplitLoop(s, <<>>, <<>>)

\* ['feature', 'update', 'release'] of record_finding
RecordStopwords ==
    { <<"f","e","a","t","u","r","e">>, <<"u","p","d","a","t","e">>,
      <<"r","e","l","e","a","s","e">> }

\* set(word.lower() for word in feature.split()
\*     if len(word) > 4 and word.lower() not in [...])
Terms(feature) ==
    { Lower(w) : w \in { x \in Range(Split(feature)) :
                           Len(x) > MinTermLen /\ Lower(x) \notin RecordStopwords } }

(* --------------------------- trend store ------------------------------- *)
\* Analysis: the fields record_finding and monitor_competitor read
MkAnalysis(impact, key_features) == [impact |-> impact, key_features |-> key_features]

\* the entry dict of record_finding (threat_level and summary are copied
\* from the analysis like impact and are read by no operation modelled here)
MkEntry(ts, analysis) ==
    [timestamp |-> ts, impact |-> analysis.impact, key_features |-> analysis.key_features]

\* d[key] += 1: a defaultdict(int) creates the key, a dict loaded from
\* trends.json raises KeyError when the key is missing
Incr(d, key, defaulting) ==
    IF key \in DOMAIN d THEN [raised |-> FALSE, d |-> [d EXCEPT ![key] = @ + 1]]
    ELSE IF defaulting THEN [raised |-> FALSE, d |-> Put(d, key, 1)]
    ELSE [raised |-> TRUE, d |-> d]

\* for term in terms: feature_mentions[term] += 1
TermLoop(d, terms, defaulting) ==
    IF ~defaulting /\ ~(terms \subseteq DOMAIN d)
    THEN [raised |-> TRUE, d |-> d]
    ELSE [raised |-> FALSE,
          d |-> [k \in DOMAIN d \cup terms |->
                   Get(d, k, 0) + (IF k \in terms THEN 1 ELSE 0)]]

RECURSIVE FeatureLoop(_, _, _)
\* for feature in analysis.key_features: ...
FeatureLoop(d, features, defaulting) ==
    IF features = <<>> THEN [raised |-> FALSE, d |-> d]
    ELSE LET r == TermLoop(d, Terms(Head(features)), defaulting)
         IN  IF r.raised THEN r ELSE FeatureLoop(r.d, Tail(features), defaulting)

\* the trim with history[:50], which keeps the oldest entries
TrimHistory_first(history) ==
    IF Len(history) > HistoryLimit THEN Take(history, HistoryLimit) ELSE history

\* history[-50:] when len(history) > 50
TrimHistory(history) ==
    IF Len(history) > HistoryLimit THEN LastN(history, HistoryLimit) ELSE history

\* TrendAnalyzer.record_finding on the loaded trends.json: whether it raised,
\* and the content of trends.json afterwards (save_trends is the last
\* statement, so a call that raises writes nothing)
record_finding(trends, name, analysis, ts) ==
    LET fresh == name \notin DOMAIN trends
        rec   == IF fresh
                 THEN [history |-> <<>>, impact_counts |-> EmptyDict,
                       feature_mentions |-> EmptyDict]
                 ELSE trends[name]
        hist  == Append(rec.history, MkEntry(ts, analysis))
        ic    == Incr(rec.impact_counts, analysis.impact, fresh)
        fm    == FeatureLoop(rec.feature_mentions, analysis.key_features, fresh)
    IN  IF ic.raised \/ fm.raised
        THEN [raised |-> TRUE, trends |-> trends]
        ELSE [raised |-> FALSE,
              trends |-> Put(trends, name,
                             [history |-> TrimHistory(hist),
                              impact_counts |-> ic.d,
                              feature_mentions |-> fm.d])]

(* ------------------------ get_competitor_trends ------------------------ *)
\* Python s[a:b] with a <= b <= 0 counted from the end (b = 0 stands for
\* the end of the list)
FromEnd(s, a, b) ==
    LET lo == IF Len(s) > a THEN Len(s) - a ELSE 0
        hi == IF Len(s) > b THEN Len(s) - b ELSE 0
    IN  SubSeq(s, lo + 1, hi)

\* recent = history[-10:]
Recent(history) == FromEnd(history, RecentWindow, 0)

\* older with every entry before the recent ones, history[:-10]
Older_all(history) == FromEnd(history, Len(history), RecentWindow)

\* older = history[-20:-10]
Older(history) == FromEnd(history, TrendWindow, RecentWindow)

\* the activity trend of get_competitor_trends
activity_trend(history) ==
    IF Len(history) >= TrendWindow
    THEN LET recent_activity == Len(Recent(history))
             older_activity  == Len(Older(history))
         IN  IF recent_activity > older_activity THEN "increasing"
             ELSE IF recent_activity = older_activity THEN "stable"
             ELSE "decreasing"
    ELSE "insufficient data"

\* ['feature', 'update', 'release', 'support'] of get_competitor_trends
FocusStopwords == RecordStopwords \cup { <<"s","u","p","p","o","r","t">> }

RECURSIVE FeatureWords(_)
\* for feature in entry.get('key_features', []): feature.lower().split()
FeatureWords(features) ==
    IF features = <<>> THEN <<>>
    ELSE Split(Lower(Head(features))) \o FeatureWords(Tail(features))

RECURSIVE recent_keywords(_)
\* for entry in recent: ... recent_keywords.extend(...)
recent_keywords(recent) ==
    IF recent = <<>> THEN <<>>
    ELSE FeatureWords(Head(recent).key_features) \o recent_keywords(Tail(recent))

\* keyword_freq[kw] += 1 on a defaultdict(int), kept as the list of its
\* items in insertion order
Bump(freq, kw) ==
    IF \E i \in DOMAIN freq : freq[i].kw = kw
    THEN [i \in DOMAIN freq |->
            IF freq[i].kw = kw THEN [freq[i] EXCEPT !.n = @ + 1] ELSE freq[i]]
    ELSE Append(freq, [kw |-> kw, n |-> 1])

RECURSIVE Tally(_, _)
\* for kw in recent_keywords: if len(kw) > 4 and kw not in [...]: ...
Tally(freq, kws) ==
    IF kws = <<>> THEN freq
    ELSE Tally(IF Len(Head(kws)) > MinTermLen /\ Head(kws) \notin FocusStopwords
               THEN Bump(freq, Head(kws)) ELSE freq,
               Tail(kws))

\* keyword_freq.items() of get_competitor_trends
keyword_freq(history) == Tally(<<>>, recent_keywords(Recent(history)))

RECURSIVE SortedByCount(_, _)
\* sorted(items, key=lambda x: x[1], reverse=True): a stable sort, items
\* of equal count keep their order
SortedByCount(sorted, items) ==
    IF items = <<>> THEN sorted
    ELSE LET x == Head(items)
             k == Cardinality({i \in DOMAIN sorted : sorted[i].n >= x.n})
         IN  SortedByCount(SubSeq(sorted, 1, k) \o <<x>> \o SubSeq(sorted, k + 1, Len(sorted)),
                           Tail(items))

\* recent_focus of get_competitor_trends
recent_focus(history) == Take(SortedByCount(<<>>, keyword_freq(history)), FocusLimit)

\* TrendAnalyzer.get_competitor_trends (average_impact and top_features are
\* read by no property stated here)
get_competitor_trends(trends, name) ==
    IF name \notin DOMAIN trends \/ trends[name].history = <<>>
    THEN [error |-> "No historical data"]
    ELSE LET history == trends[name].history
         IN  [total_updates |-> Len(history),
              recent_activity |-> Len(Recent(history)),
              activity_trend |-> activity_trend(history),
              impact_distribution |-> trends[name].impact_counts,
              recent_focus |-> recent_focus(history),
              first_seen |-> history[1].timestamp,
              last_seen |-> history[Len(history)].timestamp]

(* ------------------------- tracked entities ---------------------------- *)
\* CompetitorConfig: the fields the engine reads or writes; a URL field is
\* TRUE when the URL is configured, last_checked 0 stands for None
MkCompetitor(name, website_url, rss_feed_url, enabled) ==
    [name |-> name, website_url |-> website_url, rss_feed_url |-> rss_feed_url,
     enabled |-> enabled, last_checked |-> 0]

Names == {"E1", "E2"}

\* competitors.json before the first check
InitialCompetitors ==
    << MkCompetitor("E1", TRUE, TRUE, TRUE),
       MkCompetitor("E2", TRUE, FALSE, TRUE) >>

(* --------------------- what the sources can return --------------------- *)
u1  == MkUpdate(<<"a">>, <<"b", "c">>)
u2  == MkUpdate(<<"a", "b">>, <<"c">>)
u3  == MkUpdate(<<"d">>, <<"e">>)
u1b == MkUpdate(<<"a">>, <<"x">>)
u4  == MkUpdate(<<"f">>, <<"g">>)
u5  == MkUpdate(<<"E", " ", "-", " ", "R">>, <<"h">>)
u6  == MkUpdate(<<"a">>, <<"s">>)
u7  == MkUpdate(<<"h">>, <<"i">>)
u8  == MkUpdate(<<"j">>, <<"k">>)
u9  == MkUpdate(<<"l">>, <<"m">>)
u10 == MkUpdate(<<"n">>, <<"o">>)

\* results of ContentExtractor.extract_from_rss (at most 10 entries)
FeedResults == { <<>>, <<u1>>, <<u1, u2, u3>>, <<u3, u4, u7, u8, u9, u10>> }
\* results of ContentExtractor.extract_from_website (at most 20 updates)
PageResults == { <<>>, <<u1b, u4>> }
\* results of _search_for_updates (at most 4 updates)
SearchResults == { <<>>, <<u5, u6>> }

aHigh == MkAnalysis("High", << <<"S","y","n","c","s"," ","U","p","d","a","t","e">> >>)
aMed  == MkAnalysis("Medium", <<>>)
aCrit == MkAnalysis("Critical", << <<"s","y","n","c","s">>, <<"n","o","t","e","s"," ","a","p","i">> >>)

aWide == MkAnalysis("Low", << <<"s","y","n","c","s"," ","S","y","n","c","s"," ","s","u","p","p","o","r","t">>,
                            <<"a","l","p","h","a"," ","b","r","a","v","o"," ","d","e","l","t","a"," ",
                              "h","o","t","e","l"," ","i","n","d","i","a">> >>)

\* results of AIAnalyzer.analyze_updates, which always returns an Analysis
\* (_basic_analysis is the fallback of every failure of the Gemini call)
Analyses == { aHigh, aMed }

(* ------------------------ monitor_competitor --------------------------- *)
\* [u for u in web_updates if u.title not in existing_titles]
SelectNotTitled(web_updates, existing_titles) ==
    SelectSeq(web_updates, LAMBDA u : u.title \notin existing_titles)

\* one call of a source and the number of updates it returned
Called(source, result) == << [source |-> source, n |-> Len(result)] >>

\* the source of each update of a list taken from one source
Tagged(source, result) == [i \in DOMAIN result |-> source]

\* the gathering, with the page extracted whatever the feed returned
Gather_page_always(competitor, rss_updates, web_updates, search_updates) ==
    LET fromFeed == IF competitor.rss_feed_url THEN rss_updates ELSE <<>>
        feedCall == IF competitor.rss_feed_url THEN Called("feed", rss_updates) ELSE <<>>
        fresh    == SelectNotTitled(web_updates,
                                    {fromFeed[i].title : i \in DOMAIN fromFeed})
    IN  IF competitor.website_url
        THEN IF web_updates # <<>>
             THEN [updates |-> fromFeed \o fresh,
                   tried   |-> feedCall \o Called("page", web_updates),
                   from    |-> Tagged("feed", fromFeed) \o Tagged("page", fresh)]
             ELSE [updates |-> fromFeed \o search_updates,
                   tried   |-> feedCall \o Called("page", web_updates)
                                        \o Called("search", search_updates),
                   from    |-> Tagged("feed", fromFeed) \o Tagged("search", search_updates)]
        ELSE [updates |-> fromFeed, tried |-> feedCall,
              from |-> Tagged("feed", fromFeed)]

\* the gathering of monitor_competitor: updates is the candidate list, tried
\* the sources called, in the order of the calls, and from the source of
\* each candidate.  extract_from_rss, extract_from_website and
\* _search_for_updates return a list and never raise.
Gather(competitor, rss_updates, web_updates, search_updates) ==
    LET fromFeed == IF competitor.rss_feed_url THEN rss_updates ELSE <<>>
        feedCall == IF competitor.rss_feed_url THEN Called("feed", rss_updates) ELSE <<>>
        fresh    == SelectNotTitled(web_updates,
                                    {fromFeed[i].title : i \in DOMAIN fromFeed})
    IN  IF Len(fromFeed) < FeedEnough /\ competitor.website_url
        THEN IF web_updates # <<>>
             THEN [updates |-> fromFeed \o fresh,
                   tried   |-> feedCall \o Called("page", web_updates),
                   from    |-> Tagged("feed", fromFeed) \o Tagged("page", fresh)]
             ELSE [updates |-> fromFeed \o search_updates,
                   tried   |-> feedCall \o Called("page", web_updates)
                                        \o Called("search", search_updates),
                   from    |-> Tagged("feed", fromFeed) \o Tagged("search", search_updates)]
        ELSE [updates |-> fromFeed, tried |-> feedCall,
              from |-> Tagged("feed", fromFeed)]

\* the candidate list monitor_competitor gathers from its sources
GatherUpdates(competitor, rss_updates, web_updates, search_updates) ==
    Gather(competitor, rss_updates, web_updates, search_updates).updates

\* _update_competitor_config whose comparison of names never matches
_update_competitor_config_no_match(competitors, competitor) == competitors

\* MonitoringEngine._update_competitor_config: competitors.json afterwards
_update_competitor_config(competitors, competitor) ==
    LET hits == {i \in DOMAIN competitors : competitors[i].name = competitor.name}
    IN  IF hits = {} THEN competitors
        ELSE LET first == CHOOSE i \in hits : \A j \in hits : i <= j
             IN  [competitors EXCEPT ![first] = competitor]

\* the Finding with every new update
MkFinding_all(competitor, new_updates, analysis) ==
    [competitor |-> competitor.name, updates |-> new_updates, analysis |-> analysis]

\* the dict monitor_competitor returns: new_updates[:max_updates_per_competitor]
MkFinding(competitor, new_updates, analysis) ==
    [competitor |-> competitor.name,
     updates |-> Take(new_updates, max_updates_per_competitor),
     analysis |-> analysis]

\* what monitor_competitor leaves and returns when it returns None before
\* it has written anything
Untouched(cache, trends, competitors) ==
    [result |-> "none", ran |-> FALSE, new_updates |-> <<>>,
     recorded |-> FALSE, cache |-> cache, saved |-> FALSE,
     trends |-> trends, competitors |-> competitors, finding |-> <<>>,
     updates |-> <<>>, tried |-> <<>>, from |-> <<>>]

\* monitor_competitor after its check of competitor.enabled
CheckEnabled(cache, competitor, rss_updates, web_updates, search_updates, analysis, trends, competitors, ts) ==
    LET g           == Gather(competitor, rss_updates, web_updates, search_updates)
        updates     == g.updates
        new_updates == _filter_new_updates(cache, competitor.name, updates)
        rec         == record_finding(trends, competitor.name, analysis, ts)
        checked     == [competitor EXCEPT !.last_checked = ts]
        unchanged   == [Untouched(cache, trends, competitors) EXCEPT
                           !.updates = updates, !.tried = g.tried, !.from = g.from]
    IN  IF updates = <<>> THEN unchanged
        ELSE IF new_updates = <<>>
             THEN [unchanged EXCEPT !.ran = TRUE,
                     !.competitors = _update_competitor_config(competitors, checked)]
        ELSE IF rec.raised
             THEN [unchanged EXCEPT !.result = "raised", !.ran = TRUE,
                     !.new_updates = new_updates, !.recorded = TRUE]
        ELSE [unchanged EXCEPT
                 !.result = "finding", !.ran = TRUE, !.new_updates = new_updates,
                 !.recorded = TRUE,
                 !.cache = _update_cache(cache, competitor.name, updates),
                 !.saved = TRUE,
                 !.trends = rec.trends,
                 !.competitors = _update_competitor_config(competitors, checked),
                 !.finding = << MkFinding(competitor, new_updates, analysis) >>]

\* monitor_competitor without its check of competitor.enabled
monitor_competitor_unguarded(cache, competitor, rss_updates, web_updates, search_updates, analysis, trends, competitors, ts) ==
    CheckEnabled(cache, competitor, rss_updates, web_updates, search_updates,
                 analysis, trends, competitors, ts)

\* MonitoringEngine.monitor_competitor, one call: cache is self.cache, trends
\* and competitors are the files' contents, ts is datetime.now(), and the
\* three lists are what the sources return if they are called.  The result
\* names what the call returned and what it left in self.cache and the files.
\* send_alert changes no modelled state and catches its own errors.
monitor_competitor(cache, competitor, rss_updates, web_updates, search_updates, analysis, trends, competitors, ts) ==
    IF ~competitor.enabled THEN Untouched(cache, trends, competitors)
    ELSE CheckEnabled(cache, competitor, rss_updates, web_updates, search_updates,
                      analysis, trends, competitors, ts)

(* ------------------------------ state ---------------------------------- *)
VARIABLES
    competitorsFile,      \* competitors.json: the list of CompetitorConfig
    cacheFile,            \* content_cache.json: cache key -> list of fingerprints
    trendsFile,           \* trends.json: name -> trend record
    now,                  \* the clock datetime.now() reads
    pc,                   \* monitor_all: "idle", "running" (in the loop), "done"
    selfCache,            \* self.cache of the engine running monitor_all
    enabled_competitors,  \* monitor_all: the list it iterates
    idx,                  \* monitor_all: i of enumerate(enabled_competitors, 1)
    findings,             \* monitor_all: the list it returns
    startConfig,          \* history: competitors.json as monitor_all loaded it
    outcomes,             \* history: monitor_all's monitor_competitor calls
    last,                 \* history: the latest monitor_competitor call
    recCalls,             \* history: record_finding calls made, per name
    recLog,               \* history: entries stored by record_finding, per name
    filt,                 \* history: the latest direct use of the detector
    thr,                  \* record_finding of each thread: position and locals
    ext,                  \* history: the latest extraction from a page
    step                  \* history: the operation of the latest step

vars == << competitorsFile, cacheFile, trendsFile, now, pc, selfCache,
           enabled_competitors, idx, findings, startConfig, outcomes,
           last, recCalls, recLog, filt, thr, ext, step >>

batchVars == << pc, selfCache, enabled_competitors, idx, findings, startConfig, outcomes >>

\* repeat: the call before this one was for the same name, gathered the
\* same candidates and had a candidate absent from the cache; before: what
\* that call returned
NoCall == [name |-> "", updates |-> <<>>, ran |-> FALSE, hadNew |-> FALSE,
           result |-> "none", repeat |-> FALSE, before |-> "none",
           tried |-> <<>>, from |-> <<>>, ts |-> 0, finding |-> <<>>]

NoFilter == [name |-> "", updates |-> <<>>, cache |-> EmptyDict,
             first |-> <<>>, second |-> <<>>, op |-> "none"]

\* the scheduler's daemon thread and the main thread of the agent's tools
Threads == {"scheduler", "main"}

NoRecording == [pc |-> "idle", name |-> "", analysis |-> aMed, trends |-> EmptyDict,
                ts |-> 0, raised |-> FALSE]

NoExtraction == [op |-> "none"]

Init ==
    /\ competitorsFile = InitialCompetitors
    /\ cacheFile = EmptyDict
    /\ trendsFile = EmptyDict
    /\ now = 0
    /\ pc = "idle"
    /\ selfCache = EmptyDict
    /\ enabled_competitors = <<>>
    /\ idx = 0
    /\ findings = <<>>
    /\ startConfig = <<>>
    /\ outcomes = <<>>
    /\ last = NoCall
    /\ recCalls = [n \in Names |-> 0]
    /\ recLog = [n \in Names |-> <<>>]
    /\ filt = NoFilter
    /\ thr = [t \in Threads |-> NoRecording]
    /\ ext = NoExtraction
    /\ step = [op |-> "none"]

(* ----------------------------- actions --------------------------------- *)
\* the effect of one monitor_competitor call r on the files and the history
Effects(competitor, analysis, r) ==
    /\ now' = now + 1
    /\ cacheFile' = IF r.saved THEN r.cache ELSE cacheFile
    /\ trendsFile' = r.trends
    /\ competitorsFile' = r.competitors
    /\ last' = [name |-> competitor.name, updates |-> r.updates, ran |-> r.ran,
                hadNew |-> r.new_updates # <<>>, result |-> r.result,
                repeat |-> /\ last.name = competitor.name
                           /\ last.updates = r.updates
                           /\ last.hadNew,
                before |-> last.result,
                tried |-> r.tried, from |-> r.from, ts |-> now + 1,
                finding |-> r.finding]
    /\ step' = [op |-> "monitor_competitor"]
    /\ recCalls' = IF r.recorded
                   THEN [recCalls EXCEPT ![competitor.name] = @ + 1] ELSE recCalls
    /\ recLog' = IF r.result = "finding"
                 THEN [recLog EXCEPT ![competitor.name] =
                          Append(@, MkEntry(now + 1, analysis))]
                 ELSE recLog

\* check_single_competitor: a new MonitoringEngine (self.cache = load_cache())
\* runs monitor_competitor on the named, enabled competitor
check_single_competitor(i, rss_updates, web_updates, search_updates, analysis) ==
    /\ now < MaxClock
    /\ competitorsFile[i].enabled
    /\ LET competitor == competitorsFile[i]
           r == monitor_competitor(cacheFile, competitor, rss_updates, web_updates,
                                   search_updates, analysis,
                                   trendsFile, competitorsFile, now + 1)
       IN  Effects(competitor, analysis, r)
    /\ UNCHANGED << batchVars, filt, thr, ext >>

\* monitor_all up to its loop: MonitoringEngine() and load_competitors()
MonitorAllStart ==
    /\ pc # "running"
    /\ LET enabled == SelectSeq(competitorsFile, LAMBDA c : c.enabled)
       IN  /\ enabled_competitors' = enabled
           /\ pc' = IF enabled = <<>> THEN "done" ELSE "running"
    /\ selfCache' = cacheFile
    /\ idx' = 1
    /\ findings' = <<>>
    /\ startConfig' = competitorsFile
    /\ outcomes' = <<>>
    /\ step' = [op |-> "monitor_all"]
    /\ UNCHANGED << competitorsFile, cacheFile, trendsFile, now, last,
                    recCalls, recLog, filt, thr, ext >>

\* the loop with the try/except around it: an iteration that raises ends it
AfterIteration_abort(raised) ==
    /\ idx' = idx + 1
    /\ pc' = IF raised \/ idx = Len(enabled_competitors) THEN "done" ELSE "running"

\* the loop's next index and pc after the iteration of idx, whether the
\* iteration raised or not (the try/except is inside the loop)
AfterIteration(raised) ==
    /\ idx' = idx + 1
    /\ pc' = IF idx = Len(enabled_competitors) THEN "done" ELSE "running"

\* whether the iteration of idx reached time.sleep(rate_limit_seconds): the
\* sleep is inside the try, after monitor_competitor returned
Slept(raised) == ~raised /\ idx < Len(enabled_competitors)

\* one iteration of monitor_all's loop
MonitorAllStep(rss_updates, web_updates, search_updates, analysis) ==
    /\ pc = "running"
    /\ now < MaxClock
    /\ LET competitor == enabled_competitors[idx]
           r == monitor_competitor(selfCache, competitor, rss_updates, web_updates,
                                   search_updates, analysis,
                                   trendsFile, competitorsFile, now + 1)
       IN  /\ Effects(competitor, analysis, r)
           /\ selfCache' = r.cache
           /\ findings' = findings \o r.finding
           /\ outcomes' = Append(outcomes, [name |-> competitor.name, result |-> r.result,
                                            slept |-> Slept(r.result = "raised")])
           /\ AfterIteration(r.result = "raised")
    /\ UNCHANGED << enabled_competitors, startConfig, filt, thr, ext >>

\* toggle_competitor
toggle_competitor(i) ==
    /\ now < MaxClock
    /\ now' = now + 1
    /\ competitorsFile' = [competitorsFile EXCEPT ![i].enabled = ~@]
    /\ step' = [op |-> "toggle_competitor"]
    /\ UNCHANGED << cacheFile, trendsFile, batchVars, last, recCalls, recLog, filt, thr, ext >>

\* reset_cache clearing trends.json with the cache
reset_cache_all(confirm) ==
    /\ now < MaxClock
    /\ now' = now + 1
    /\ cacheFile' = IF confirm THEN EmptyDict ELSE cacheFile
    /\ trendsFile' = IF confirm THEN EmptyDict ELSE trendsFile
    /\ last' = IF confirm THEN NoCall ELSE last
    /\ step' = [op |-> "reset_cache", confirm |-> confirm]
    /\ UNCHANGED << competitorsFile, batchVars, recCalls, recLog, filt, thr, ext >>

\* reset_cache(confirm)
reset_cache(confirm) ==
    /\ now < MaxClock
    /\ now' = now + 1
    /\ cacheFile' = IF confirm THEN EmptyDict ELSE cacheFile
    /\ last' = IF confirm THEN NoCall ELSE last
    /\ step' = [op |-> "reset_cache", confirm |-> confirm]
    /\ UNCHANGED << competitorsFile, trendsFile, batchVars, recCalls, recLog, filt, thr, ext >>

\* the tools and the scheduled check, one at a time
Next ==
    \/ \E i \in DOMAIN competitorsFile, f \in FeedResults, w \in PageResults,
          s \in SearchResults, a \in Analyses :
          pc # "running" /\ check_single_competitor(i, f, w, s, a)
    \/ MonitorAllStart
    \/ \E f \in FeedResults, w \in PageResults, s \in SearchResults, a \in Analyses :
          MonitorAllStep(f, w, s, a)
    \/ \E i \in DOMAIN competitorsFile : pc # "running" /\ toggle_competitor(i)
    \/ \E c \in BOOLEAN : pc # "running" /\ reset_cache(c)

Spec == Init /\ [][Next]_vars

(* ------------------- the trend store on its own ------------------------ *)
TrendAnalyses == { aHigh, aMed, aCrit, aWide }

\* one TrendAnalyzer.record_finding call
RecordFindingCall(name, analysis) ==
    /\ now < MaxRecCalls
    /\ now >= FreeCalls => (name = "E1" /\ analysis = aHigh)
    /\ LET r == record_finding(trendsFile, name, analysis, now + 1)
       IN  /\ trendsFile' = r.trends
           /\ recLog' = IF r.raised THEN recLog
                        ELSE [recLog EXCEPT ![name] = Append(@, MkEntry(now + 1, analysis))]
           /\ step' = [op |-> "record_finding", name |-> name, analysis |-> analysis,
                       raised |-> r.raised]
    /\ now' = now + 1
    /\ recCalls' = [recCalls EXCEPT ![name] = @ + 1]
    /\ UNCHANGED << competitorsFile, cacheFile, batchVars, last, filt, thr, ext >>

NextTrend == \E name \in Names, analysis \in TrendAnalyses : RecordFindingCall(name, analysis)

SpecTrend == Init /\ [][NextTrend]_vars

(* ------------- the scheduler thread beside the tools ------------------- *)
\* start_scheduler's thread runs monitor_all while the agent's tools run in
\* the main thread: between two iterations of the loop (the rate-limit
\* sleep) any tool may run
NextConc ==
    \/ MonitorAllStart
    \/ \E f \in FeedResults, w \in PageResults, s \in SearchResults, a \in Analyses :
          MonitorAllStep(f, w, s, a)
    \/ \E i \in DOMAIN competitorsFile, f \in FeedResults, w \in PageResults,
          s \in SearchResults, a \in Analyses : check_single_competitor(i, f, w, s, a)
    \/ \E i \in DOMAIN competitorsFile : toggle_competitor(i)
    \/ \E c \in BOOLEAN : reset_cache(c)

SpecConc == Init /\ [][NextConc]_vars

(* ------------- record_finding in two threads at once ------------------- *)
\* record_finding up to its entry: trends = load_trends() and the entry's
\* timestamp
RecordLoad(t, name, analysis) ==
    /\ thr[t].pc # "loaded"
    /\ now < MaxRaceCalls
    /\ now' = now + 1
    /\ thr' = [thr EXCEPT ![t] = [pc |-> "loaded", name |-> name, analysis |-> analysis,
                                  trends |-> trendsFile, ts |-> now + 1,
                                  raised |-> FALSE]]
    /\ recCalls' = [recCalls EXCEPT ![name] = @ + 1]
    /\ step' = [op |-> "load_trends"]
    /\ UNCHANGED << competitorsFile, cacheFile, trendsFile, batchVars, last,
                    recLog, filt, ext >>

\* the rest of record_finding: the changes to the loaded dict and
\* save_trends(trends), which a call that raises does not reach
RecordSave(t) ==
    /\ thr[t].pc = "loaded"
    /\ LET r == record_finding(thr[t].trends, thr[t].name, thr[t].analysis, thr[t].ts)
       IN  /\ trendsFile' = IF r.raised THEN trendsFile ELSE r.trends
           /\ thr' = [thr EXCEPT ![t].pc = "done", ![t].raised = r.raised]
           /\ recLog' = IF r.raised THEN recLog
                        ELSE [recLog EXCEPT ![thr[t].name] =
                                 Append(@, MkEntry(thr[t].ts, thr[t].analysis))]
    /\ step' = [op |-> "save_trends"]
    /\ UNCHANGED << competitorsFile, cacheFile, now, batchVars, last,
                    recCalls, filt, ext >>

\* the scheduled check's and an interactive check's record_finding calls,
\* interleaved at load_trends and save_trends
NextRace ==
    \/ \E t \in Threads, name \in Names, analysis \in TrendAnalyses :
          RecordLoad(t, name, analysis)
    \/ \E t \in Threads : RecordSave(t)

SpecRace == Init /\ [][NextRace]_vars

(* ---------------- monitor_competitor on its own ------------------------ *)
\* engine.monitor_competitor(competitor) of a new MonitoringEngine on a
\* configured entity, enabled or not
MonitorCompetitorCall(i, rss_updates, web_updates, search_updates, analysis) ==
    /\ now < MaxClock
    /\ LET competitor == competitorsFile[i]
           r == monitor_competitor(cacheFile, competitor, rss_updates, web_updates,
                                   search_updates, analysis,
                                   trendsFile, competitorsFile, now + 1)
       IN  Effects(competitor, analysis, r)
    /\ UNCHANGED << batchVars, filt, thr, ext >>

NextEngine ==
    \/ \E i \in DOMAIN competitorsFile, f \in FeedResults, w \in PageResults,
          s \in SearchResults, a \in Analyses : MonitorCompetitorCall(i, f, w, s, a)
    \/ \E i \in DOMAIN competitorsFile : toggle_competitor(i)

SpecEngine == Init /\ [][NextEngine]_vars

(* ----------------- the change detector on its own ---------------------- *)
Digits == <<"0", "1", "2", "3", "4", "5", "6", "7", "8", "9">>

\* the title "Release k" of the k-th entry of a long changelog
NumTitle(k) ==
    << "R", Digits[((k \div 100) % 10) + 1], Digits[((k \div 10) % 10) + 1],
       Digits[(k % 10) + 1] >>

LongList(n) == [k \in 1..n |-> MkUpdate(NumTitle(k), <<"n">>)]

Pad == [i \in 1..PrefixLen |-> "p"]
uL == MkUpdate(<<"c">>, Pad \o <<"a">>)
uM == MkUpdate(<<"c">>, Pad \o <<"b">>)

\* candidate lists handed to the detector
DetectorLists ==
    { <<u1>>, <<u1, u2, u3>>, <<u1b, u4>>, <<uL, uM, u3>>,
      LongList(CacheLimit), LongList(LongLen) }

\* _filter_new_updates called twice in a row by a new engine
FilterTwice(name, updates) ==
    /\ LET cache == cacheFile
           first == _filter_new_updates(cache, name, updates)
           second == _filter_new_updates(cache, name, updates)
       IN  filt' = [name |-> name, updates |-> updates, cache |-> cache,
                    first |-> first, second |-> second, op |-> "filter"]
    /\ step' = [op |-> "_filter_new_updates"]
    /\ UNCHANGED << competitorsFile, cacheFile, trendsFile, now, batchVars,
                    last, recCalls, recLog, thr, ext >>

\* _update_cache called by a new engine
UpdateCacheCall(name, updates) ==
    /\ cacheFile' = _update_cache(cacheFile, name, updates)
    /\ filt' = [name |-> name, updates |-> updates, cache |-> cacheFile,
                first |-> <<>>, second |-> <<>>, op |-> "update"]
    /\ step' = [op |-> "_update_cache"]
    /\ UNCHANGED << competitorsFile, trendsFile, now, batchVars,
                    last, recCalls, recLog, thr, ext >>

NextCache ==
    \/ \E name \in Names, updates \in DetectorLists : FilterTwice(name, updates)
    \/ \E name \in Names, updates \in DetectorLists : UpdateCacheCall(name, updates)
    \/ \E c \in BOOLEAN : reset_cache(c)

SpecCache == Init /\ [][NextCache]_vars

(* --------------------------- page extraction --------------------------- *)
\* None, returned by _extract_from_container, _extract_from_heading and
\* _extract_from_list_item for an element they reject
NoUpdate == MkUpdate(<<>>, <<>>)

Titles(updates) == {updates[i].title : i \in DOMAIN updates}

RECURSIVE AppendNew_any(_, _)
\* the loop appending every update, whatever its title
AppendNew_any(updates, found) ==
    IF found = <<>> THEN updates
    ELSE AppendNew_any(IF Head(found) # NoUpdate
                       THEN Append(updates, Head(found)) ELSE updates,
                       Tail(found))

RECURSIVE AppendNew(_, _)
\* for element in ...: update = ...
\*     if update and not any(u.title == update.title for u in updates):
\*         updates.append(update)
\* found holds the update (or None) of each element, in document order
AppendNew(updates, found) ==
    IF found = <<>> THEN updates
    ELSE AppendNew(IF Head(found) # NoUpdate /\ Head(found).title \notin Titles(updates)
                   THEN Append(updates, Head(found)) ELSE updates,
                   Tail(found))

\* Strategy 1 of _extract_structured_content: the containers
StructuredTier(page) == AppendNew(<<>>, Take(page.containers, ContainerLimit))

\* Strategy 2 run whatever the containers gave
HeadingTier_always(updates, page) ==
    AppendNew(updates, Take(page.headings, HeadingLimit))

\* Strategy 2: the headings
HeadingTier(updates, page) ==
    IF Len(updates) < TierTwoBelow
    THEN AppendNew(updates, Take(page.headings, HeadingLimit))
    ELSE updates

\* Strategy 3: the list items (page.items are those of at most 10 lists, at
\* most 15 of each)
ListTier(updates, page) ==
    IF Len(updates) < TierThreeBelow THEN AppendNew(updates, page.items) ELSE updates

\* ContentExtractor._extract_structured_content
_extract_structured_content(page) ==
    Take(ListTier(HeadingTier(StructuredTier(page), page), page), StructuredCap)

\* ContentExtractor._aggressive_extraction: all headings, then paragraphs
\* with a bold title, then divs of plain text
_aggressive_extraction(page) ==
    LET byHeading   == AppendNew(<<>>, Take(page.allHeadings, AllHeadingLimit))
        byParagraph == IF Len(byHeading) < TierTwoBelow
                       THEN AppendNew(byHeading, Take(page.paragraphs, ParagraphLimit))
                       ELSE byHeading
        byDiv       == IF Len(byParagraph) < TierThreeBelow
                       THEN AppendNew(byParagraph, Take(page.divs, DivLimit))
                       ELSE byParagraph
    IN  Take(byDiv, AggressiveCap)

\* ContentExtractor.extract_from_website: fetched is FALSE when the request
\* or the parsing raised
extract_from_website(page, fetched) ==
    IF ~fetched THEN <<>>
    ELSE LET updates == _extract_structured_content(page)
         IN  IF updates = <<>> THEN _aggressive_extraction(page) ELSE updates

(* ---------------------- the Update of one element ---------------------- *)
\* An element is described by what the code reads of it: the text that
\* get_text(strip=True) returns for it, and for a child the code looks up
\* with find() either <<>> (find returned None) or << text of the child >>.

\* str.strip()
strip(s) ==
    IF \A i \in DOMAIN s : s[i] = " " THEN <<>>
    ELSE LET first == CHOOSE i \in DOMAIN s :
                          s[i] # " " /\ \A j \in 1..(i - 1) : s[j] = " "
             final == CHOOSE i \in DOMAIN s :
                          s[i] # " " /\ \A j \in (i + 1)..Len(s) : s[j] = " "
         IN  SubSeq(s, first, final)

RECURSIVE join(_)
\* ' '.join(parts)
join(parts) ==
    IF parts = <<>> THEN <<>>
    ELSE IF Len(parts) = 1 THEN parts[1]
    ELSE parts[1] \o <<" ">> \o join(Tail(parts))

\* s.find(sub): where sub first occurs in s, 0 when it does not
Find(s, sub) ==
    LET at(i)  == SubSeq(s, i, i + Len(sub) - 1) = sub
        places == 1..(Len(s) - Len(sub) + 1)
    IN  IF \A i \in places : ~at(i) THEN 0
        ELSE CHOOSE i \in places : at(i) /\ \A j \in 1..(i - 1) : ~at(j)

\* s.split(sep)[0]: what precedes the first occurrence of sep
Before(s, sep) == IF Find(s, sep) = 0 THEN s ELSE SubSeq(s, 1, Find(s, sep) - 1)

RECURSIVE replace(_, _)
\* s.replace(old, ''): every occurrence of old removed, left to right
replace(s, old) ==
    IF old = <<>> \/ Find(s, old) = 0 THEN s
    ELSE SubSeq(s, 1, Find(s, old) - 1)
         \o replace(SubSeq(s, Find(s, old) + Len(old), Len(s)), old)

RECURSIVE FirstWords(_, _)
\* s.split()[:n]
FirstWords(s, n) ==
    IF n = 0 \/ strip(s) = <<>> THEN <<>>
    ELSE LET rest == strip(s)
             word == SubSeq(rest, 1, IF Find(rest, <<" ">>) = 0 THEN Len(rest)
                                     ELSE Find(rest, <<" ">>) - 1)
         IN  <<word>> \o FirstWords(SubSeq(rest, Len(word) + 1, Len(rest)), n - 1)

RECURSIVE get_text(_)
\* BeautifulSoup(summary, 'html.parser').get_text(strip=True) of a markup
\* given as its text runs (what stands between the tags): each run
\* stripped, the runs concatenated
get_text(runs) ==
    IF runs = <<>> THEN <<>> ELSE strip(Head(runs)) \o get_text(Tail(runs))

\* 'Untitled'
Untitled == <<"U", "n", "t", "i", "t", "l", "e", "d">>

\* the Update extract_from_rss makes of one entry (a dict of feedparser; the
\* summary and the description are markup)
RssUpdate(entry) ==
    LET title   == Get(entry, "title", Untitled)
        raw     == Get(entry, "summary", Get(entry, "description", <<>>))
        summary == IF raw # <<>> THEN get_text(raw) ELSE raw
    IN  MkUpdate(title, IF summary # <<>> THEN Take(summary, FeedContentCap) ELSE title)

\* ContentExtractor.extract_from_rss: parsed is FALSE when feedparser or the
\* loop raised
extract_from_rss(entries, parsed) ==
    IF ~parsed THEN <<>>
    ELSE [i \in 1..Len(Take(entries, FeedLimit)) |-> RssUpdate(entries[i])]

\* "len(text) > 15" of a content part
LongPart(text) == Len(text) > MinPartLen

\* ContentExtractor._extract_from_container; container.parts are the texts
\* of its p, li, div and span elements
_extract_from_container(container) ==
    LET title == IF container.title_elem = <<>>
                 THEN Take(Before(container.text, <<".">>), TitleCap)
                 ELSE container.title_elem[1]
        content_parts == SelectSeq(Take(container.parts, PartLimit), LongPart)
        content == Take(join(content_parts), ContentCap)
    IN  IF container.title_elem = <<>> /\ Len(container.text) < MinElementText
        THEN NoUpdate
        ELSE IF title = <<>> \/ Len(title) < MinTitleLen THEN NoUpdate
        ELSE MkUpdate(Take(title, TitleCap),
                      IF content = <<>> \/ Len(content) < MinContentLen
                      THEN title ELSE content)

\* ContentExtractor._extract_from_heading; heading.siblings are the texts of
\* the p, ul, div and span elements that follow it
_extract_from_heading(heading) ==
    LET title == heading.text
        content_parts == SelectSeq(Take(heading.siblings, SiblingLimit), LongPart)
        content == Take(join(content_parts), ContentCap)
    IN  IF title = <<>> \/ Len(title) < MinTitleLen THEN NoUpdate
        ELSE IF content = <<>> /\ Len(title) < MinContentLen THEN NoUpdate
        ELSE MkUpdate(Take(title, TitleCap), IF content # <<>> THEN content ELSE title)

\* ContentExtractor._extract_from_list_item; li.heading is the first strong,
\* b, h1..h6 or a element of the item
_extract_from_list_item(li) ==
    LET text  == li.text
        first == Before(text, <<".">>)
        title == IF li.heading # <<>> THEN li.heading[1]
                 ELSE IF Len(first) > SentenceMin THEN Take(first, TitleCap)
                 ELSE Take(text, ShortTitleCap)
        rest  == strip(replace(text, title))
        content == IF li.heading # <<>>
                   THEN (IF rest = <<>> THEN title ELSE rest)
                   ELSE text
    IN  IF text = <<>> \/ Len(text) < MinElementText THEN NoUpdate
        ELSE MkUpdate(Take(title, TitleCap), Take(content, ContentCap))

\* the first loop of _aggressive_extraction, for one heading
AggressiveHeading(heading) ==
    LET text == heading.text
        content_parts == SelectSeq(Take(heading.siblings, AggSiblingLimit), LongPart)
    IN  IF Len(text) >= AggTitleMin /\ Len(text) <= AggHeadingMax
        THEN MkUpdate(Take(text, TitleCap),
                      IF content_parts # <<>>
                      THEN Take(join(content_parts), AggContentCap) ELSE text)
        ELSE NoUpdate

\* the second loop of _aggressive_extraction, for one paragraph; p.strong is
\* its first strong, b or em element
AggressiveParagraph(p) ==
    IF p.strong = <<>> THEN NoUpdate
    ELSE LET title   == p.strong[1]
             content == strip(replace(p.text, title))
         IN  IF Len(title) >= AggTitleMin /\ Len(title) <= BoldTitleMax
             THEN MkUpdate(Take(title, TitleCap),
                           Take(IF content # <<>> THEN content ELSE title, AggContentCap))
             ELSE NoUpdate

\* the third loop of _aggressive_extraction, for one div; div.nested says
\* that it holds a div or a section
AggressiveDiv(div) ==
    IF DivTextMin <= Len(div.text) /\ Len(div.text) <= DivTextMax /\ ~div.nested
    THEN MkUpdate(Take(join(FirstWords(div.text, TitleWords)), TitleCap),
                  Take(div.text, AggContentCap))
    ELSE NoUpdate

\* " - Recent Activity"
RecentActivity ==
    <<" ", "-", " ", "R", "e", "c", "e", "n", "t", " ",
      "A", "c", "t", "i", "v", "i", "t", "y">>

\* the Update _search_for_updates makes of one related topic
TopicUpdate(text) ==
    MkUpdate(Take(Before(text, <<" ", "-", " ">>), TopicTitleCap), Take(text, TopicCap))

\* the updates _search_for_updates makes of an answer of the search API:
\* data.Abstract and the Text of each related topic ('' when it has none)
SearchUpdates(name, data) ==
    LET topics == SelectSeq(Take(data.RelatedTopics, TopicLimit), LAMBDA t : t # <<>>)
    IN  (IF data.Abstract # <<>>
         THEN << MkUpdate(name \o RecentActivity, Take(data.Abstract, AbstractCap)) >>
         ELSE <<>>)
        \o [i \in DOMAIN topics |-> TopicUpdate(topics[i])]

(* ------------------- the elements a source can hold -------------------- *)
\* a text of n characters c
Fill(n, c) == [i \in 1..n |-> c]

\* a feed entry; each argument is <<>> (the key is absent) or << value >>
FeedEntry(title, summary, description) ==
    [k \in (IF title # <<>> THEN {"title"} ELSE {})
           \cup (IF summary # <<>> THEN {"summary"} ELSE {})
           \cup (IF description # <<>> THEN {"description"} ELSE {})
       |-> CASE k = "title" -> title[1]
             [] k = "summary" -> summary[1]
             [] OTHER -> description[1]]

\* titles: none, '', short, longer than a feed content; summaries: none,
\* '', markup without text, one run, two runs to strip, a long run
FeedEntries ==
    { FeedEntry(t, m, d) :
        t \in { <<>>, << <<>> >>, << Fill(3, "v") >>,
                << Fill(FeedContentCap + Beyond, "v") >> },
        m \in { <<>>, << <<>> >>, << << <<>> >> >>, << << Fill(30, "s") >> >>,
                << << <<" ">> \o Fill(5, "s"), Fill(4, "s") \o <<" ">> >> >>,
                << << Fill(FeedContentCap + Beyond, "s") >> >> },
        d \in { <<>>, << << Fill(12, "d") >> >> } }

\* feeds of one entry, and one of more entries than the loop reads
Feeds ==
    { <<e>> : e \in FeedEntries }
    \cup { [i \in 1..(FeedLimit + Beyond) |->
              FeedEntry(<< Fill(i, "v") >>, << << Fill(30, "s") >> >>, <<>>)] }

\* the texts of the elements beside a title: none, one of 15 characters,
\* one of 16, three of which one is short, more than the code reads, one
\* longer than a content
PartTexts(limit) ==
    { <<>>, << Fill(MinPartLen, "p") >>, << Fill(MinPartLen + 1, "p") >>,
      << Fill(16, "p"), Fill(3, "q"), Fill(20, "r") >>,
      [i \in 1..(limit + Beyond) |-> Fill(16, "p")],
      << Fill(ContentCap + Beyond, "p") >> }

\* a container holding a title element (or none), parts and text of its own
Container(title_elem, parts, loose) ==
    [title_elem |-> title_elem, parts |-> parts,
     text |-> get_text(title_elem \o parts \o <<loose>>)]

Containers ==
    { Container(t, p, l) :
        t \in { <<>>, << <<>> >>, << Fill(MinTitleLen - 1, "t") >>,
                << Fill(MinTitleLen, "t") >>, << Fill(TitleCap + Beyond, "t") >>,
                << Fill(ContentCap + Beyond, "t") >> },
        p \in PartTexts(PartLimit),
        l \in { <<>>, Fill(MinElementText - 1, "l"),
                Fill(4, "l") \o <<".", " ">> \o Fill(20, "m"),
                Fill(TitleCap + Beyond, "l"), <<".">> \o Fill(12, "l") } }

Headings ==
    [text : { <<>>, Fill(MinTitleLen - 1, "t"), Fill(MinTitleLen, "t"),
              Fill(MinContentLen - 1, "t"), Fill(MinContentLen, "t"),
              Fill(TitleCap + Beyond, "t"), Fill(ContentCap + Beyond, "t") },
     siblings : PartTexts(SiblingLimit)]

\* a list item holding a heading element (or none) and text of its own
ListItem(heading, loose) ==
    [heading |-> heading, text |-> get_text(heading \o <<loose>>)]

ListItems ==
    { ListItem(h, l) :
        h \in { <<>>, << <<>> >>, << Fill(6, "t") >>, << Fill(12, "t") >>,
                << Fill(TitleCap + Beyond, "t") >> },
        l \in { <<>>, Fill(MinElementText - 1, "l"),
                Fill(4, "l") \o <<".", " ">> \o Fill(20, "m"),
                Fill(SentenceMin + 1, "l") \o <<".">> \o Fill(20, "m"),
                Fill(ContentCap + Beyond, "l") } }

AllHeadings ==
    [text : { Fill(AggTitleMin - 1, "t"), Fill(AggTitleMin, "t"),
              Fill(AggHeadingMax, "t"), Fill(AggHeadingMax + 1, "t") },
     siblings : PartTexts(AggSiblingLimit)]

\* a paragraph holding a bold element (or none) and text of its own
Paragraph(strong, loose) ==
    [strong |-> strong, text |-> get_text(strong \o <<loose>>)]

Paragraphs ==
    { Paragraph(b, l) :
        b \in { <<>>, << Fill(AggTitleMin - 1, "t") >>, << Fill(AggTitleMin, "t") >>,
                << Fill(BoldTitleMax, "t") >>, << Fill(BoldTitleMax + 1, "t") >> },
        l \in { <<>>, <<" ">> \o Fill(5, "l"), Fill(AggContentCap + Beyond, "l") } }

\* a div of plain text and a div that wraps other blocks
PlainDiv == [text |-> Fill(DivTextMin, "l"), nested |-> FALSE]
Wrapper  == [text |-> Fill(DivTextMin, "l"), nested |-> TRUE]

Divs ==
    [text : { Fill(DivTextMin - 1, "l"), Fill(DivTextMin, "l"),
              join([i \in 1..3 |-> Fill(8, "l")]),
              join([i \in 1..(TitleWords + Beyond) |-> Fill(3, "l")]),
              Fill(DivTextMax, "l"), Fill(DivTextMax + 1, "l") },
     nested : BOOLEAN]

\* answers of the search API
SearchAnswers ==
    [Abstract : { <<>>, Fill(30, "a"), Fill(AbstractCap + Beyond, "a") },
     RelatedTopics :
        { <<>>, << Fill(4, "n") \o <<" ", "-", " ">> \o Fill(9, "o") >>,
          << <<" ", "-", " ">> \o Fill(9, "o") >>,
          << <<>>, Fill(TopicCap + Beyond, "o") >>,
          [i \in 1..(TopicLimit + Beyond) |-> Fill(i, "n")] }]

\* an element's Update as the list of the Updates created for it
Made(update) == IF update = NoUpdate THEN <<>> ELSE <<update>>

\* one call of a function that creates Updates: what it was given and the
\* Updates it created
Create(op, given, created) ==
    /\ ext.op = "none"
    /\ ext' = [op |-> op, given |-> given, created |-> created]
    /\ step' = [op |-> op]
    /\ UNCHANGED << competitorsFile, cacheFile, trendsFile, now, batchVars,
                    last, recCalls, recLog, filt, thr >>

\* the title "Notes Rk" and the update of the k-th element of a page
PageTitle(k) == <<"N", "o", "t", "e", "s", " ">> \o NumTitle(k)
Note(k) == MkUpdate(PageTitle(k), <<"t">>)
Notes(from, to) == [k \in 1..(to - from + 1) |-> Note(from + k - 1)]
\* another element with the title of Note(k)
Again(k) == MkUpdate(PageTitle(k), <<"o">>)

\* what the elements of a page give, per tier
ContainerResults ==
    { <<>>, <<NoUpdate>>, <<Note(1), NoUpdate, Again(1), Note(2)>>, Notes(1, 3),
      Notes(1, ContainerLimit + Beyond) }
HeadingResults ==
    { <<>>, <<Note(1), Note(4)>>,
      <<Note(30)>> \o Notes(30, 29 + HeadingLimit + Beyond) }
ItemResults ==
    { <<>>, <<Note(5), Again(5), Note(6)>>, Notes(60, 59 + StructuredCap + Beyond) }
AllHeadingResults ==
    { <<>>, <<Note(1)>>, <<Note(1), Again(1), Note(2), Note(3)>>,
      Notes(1, AggressiveCap + Beyond) \o <<Again(3)>> }
ParagraphResults ==
    { <<>>, <<Note(1), Note(4)>>, Notes(1, AggressiveCap + Beyond) }
\* the last one: the divs that wrap the page, then its only div of plain text
DivResults ==
    { <<>>, <<Note(5), Again(5)>>, Notes(20, 19 + AggressiveCap + Beyond),
      [i \in 1..DivLimit |-> AggressiveDiv(Wrapper)] \o << AggressiveDiv(PlainDiv) >> }

Pages ==
    [containers : ContainerResults, headings : HeadingResults, items : ItemResults,
     allHeadings : AllHeadingResults, paragraphs : ParagraphResults,
     divs : DivResults]

\* one extraction from a page: the two passes and what extract_from_website
\* returns
ExtractCall(page, fetched) ==
    /\ ext.op = "none"
    /\ ext' = [op |-> "extract", page |-> page, fetched |-> fetched,
               structured |-> _extract_structured_content(page),
               aggressive |-> _aggressive_extraction(page),
               result |-> extract_from_website(page, fetched)]
    /\ step' = [op |-> "extract_from_website"]
    /\ UNCHANGED << competitorsFile, cacheFile, trendsFile, now, batchVars,
                    last, recCalls, recLog, filt, thr >>

NextExtract ==
    \/ \E page \in Pages, fetched \in BOOLEAN : ExtractCall(page, fetched)
    \/ \E entries \in Feeds, parsed \in BOOLEAN :
          Create("extract_from_rss", entries, extract_from_rss(entries, parsed))
    \/ \E container \in Containers :
          Create("_extract_from_container", container,
                 Made(_extract_from_container(container)))
    \/ \E heading \in Headings :
          Create("_extract_from_heading", heading, Made(_extract_from_heading(heading)))
    \/ \E li \in ListItems :
          Create("_extract_from_list_item", li, Made(_extract_from_list_item(li)))
    \/ \E heading \in AllHeadings :
          Create("_aggressive_extraction", heading, Made(AggressiveHeading(heading)))
    \/ \E p \in Paragraphs :
          Create("_aggressive_extraction", p, Made(AggressiveParagraph(p)))
    \/ \E div \in Divs :
          Create("_aggressive_extraction", div, Made(AggressiveDiv(div)))
    \/ \E data \in SearchAnswers :
          Create("_search_for_updates", data, SearchUpdates(<<"A">>, data))

SpecExtract == Init /\ [][NextExtract]_vars

(* ============================== claims ================================= *)
\* the cache entry of a name in content_cache.json
Entry(name) == Get(cacheFile, CacheKey(name), <<>>)

\* C1: when monitor_competitor runs twice in a row for one entity on the
\* same non-empty candidate list, and a candidate was absent from the cache
\* before the first call, the first call returns a Finding and the second
\* returns none.
C1_SecondCheckSilent ==
    last.repeat => (last.before = "finding" /\ last.result = "none")

\* C2: whenever the detector found a new update, the entity's cache entry is
\* committed with the fingerprints of that cycle's candidates, whatever
\* happens in the analysis, recording and alert steps that follow.
C2_CacheCommittedOnNew ==
    last.hadNew => Entry(last.name) = Take(UpdateHashes(last.updates), CacheLimit)

\* C3: after every cycle that ran the detector on a non-empty candidate
\* list, new candidates or not, the entity's cache entry is the most recent
\* 100 fingerprints of all the candidates of that cycle.
C3_CacheIsThisCycle ==
    last.ran => Entry(last.name) = LastN(UpdateHashes(last.updates), CacheLimit)

\* C4: every cache entry holds at most 100 fingerprints.
C4_CacheBounded ==
    \A k \in DOMAIN cacheFile : Len(cacheFile[k]) <= CacheLimit

\* C4 witness: a list longer than the limit was committed and cut to it
C4_Witness ==
    /\ filt.op = "update"
    /\ Len(filt.updates) > CacheLimit
    /\ Len(Entry(filt.name)) = CacheLimit

\* C5: _filter_new_updates called twice in a row with the same list returns
\* a non-empty result the first time, when a candidate is absent from the
\* cache, and an empty result the second time.
C5_SecondFilterEmpty ==
    (/\ filt.op = "filter"
     /\ \E i \in DOMAIN filt.updates :
           Fingerprint(filt.updates[i]) \notin
               Range(Get(filt.cache, CacheKey(filt.name), <<>>)))
    => (filt.first # <<>> /\ filt.second = <<>>)

\* the indices of the candidates of the latest detector call whose
\* fingerprint is absent from the entity's own cache entry
NewIndices ==
    {i \in DOMAIN filt.updates :
        \A j \in DOMAIN Get(filt.cache, CacheKey(filt.name), <<>>) :
            filt.cache[CacheKey(filt.name)][j] # Fingerprint(filt.updates[i])}

\* C6: _filter_new_updates returns exactly the candidates whose fingerprint
\* is absent from the entity's own cache entry, in input order: the i-th new
\* candidate of the input is the i-th element of the result, and nothing
\* else is in it, whatever the other entities' entries hold.
C6_FilterIsNewSubsequence ==
    filt.op = "filter" =>
        /\ Len(filt.first) = Cardinality(NewIndices)
        /\ \A i \in NewIndices :
              filt.first[Cardinality({j \in NewIndices : j <= i})] = filt.updates[i]

\* C6 witness: some candidates are returned and some are not, and a returned
\* one has its fingerprint in another entity's cache entry
C6_Witness ==
    /\ filt.op = "filter"
    /\ filt.first # <<>>
    /\ Len(filt.first) < Len(filt.updates)
    /\ \E k \in DOMAIN filt.cache, i \in DOMAIN filt.first :
          /\ k # CacheKey(filt.name)
          /\ Fingerprint(filt.first[i]) \in Range(filt.cache[k])

\* C7: two updates have the same fingerprint if and only if they have the
\* same title and the same first 100 characters of content.
C7_FingerprintIff ==
    \A i, j \in DOMAIN filt.updates :
        (Fingerprint(filt.updates[i]) = Fingerprint(filt.updates[j]))
        <=> (/\ filt.updates[i].title = filt.updates[j].title
             /\ Take(filt.updates[i].content, PrefixLen)
                  = Take(filt.updates[j].content, PrefixLen))

RECURSIVE SumOver(_, _)
SumOver(d, keys) ==
    IF keys = {} THEN 0
    ELSE LET k == CHOOSE x \in keys : TRUE
         IN  d[k] + SumOver(d, keys \ {k})

\* the sum of the persisted impact_counts of a name (0 without a record)
ImpactTotal(name) ==
    IF name \in DOMAIN trendsFile
    THEN SumOver(trendsFile[name].impact_counts, DOMAIN trendsFile[name].impact_counts)
    ELSE 0

\* C8: for every entity the sum of the persisted impact_counts equals the
\* number of record_finding calls ever made for it.
C8_ImpactCountsTotal ==
    \A name \in Names : ImpactTotal(name) = recCalls[name]

\* C9: every persisted history has at most 50 entries and is the most
\* recent 50, in insertion order, of the entries record_finding stored.
C9_HistoryIsLast50 ==
    \A name \in DOMAIN trendsFile :
        /\ Len(trendsFile[name].history) <= HistoryLimit
        /\ \A i \in DOMAIN trendsFile[name].history :
              trendsFile[name].history[i] =
                  recLog[name][Len(recLog[name]) - Len(trendsFile[name].history) + i]
        /\ Len(trendsFile[name].history) =
              (IF Len(recLog[name]) < HistoryLimit THEN Len(recLog[name]) ELSE HistoryLimit)

\* C9 witness: more than 50 entries were stored, so the oldest is gone
C9_Witness ==
    /\ "E1" \in DOMAIN trendsFile
    /\ Len(recLog["E1"]) > HistoryLimit
    /\ trendsFile["E1"].history[1] # recLog["E1"][1]

\* the names of a list of competitors or of calls
NamesOf(seq) == [i \in DOMAIN seq |-> seq[i].name]

\* C10: monitor_all calls monitor_competitor exactly once for every entity
\* enabled in the configuration it loaded, in configuration order, and for
\* no other; a call that raises does not end the loop, and the Findings of
\* the calls that returned one are what monitor_all returns.
C10_BatchChecksEveryEnabled ==
    /\ pc = "running" => Len(outcomes) = idx - 1
    /\ pc = "done" =>
          /\ NamesOf(outcomes) = NamesOf(SelectSeq(startConfig, LAMBDA c : c.enabled))
          /\ [i \in DOMAIN findings |-> findings[i].competitor]
                = NamesOf(SelectSeq(outcomes, LAMBDA o : o.result = "finding"))

\* C10 witness: a call raised and the next entity was still checked
C10_Witness ==
    /\ pc = "done"
    /\ \E i \in DOMAIN outcomes : outcomes[i].result = "raised" /\ i < Len(outcomes)

\* C11: in every monitor_all run the rate-limit delay follows each entity
\* check that has a successor, whether the check raised or not, and never
\* follows the last check; no delay precedes the first check.
C11_DelayBetweenChecks ==
    \A i \in DOMAIN outcomes : outcomes[i].slept <=> i < Len(enabled_competitors)

\* the configuration entry of a name
Configured(name) ==
    competitorsFile[CHOOSE i \in DOMAIN competitorsFile : competitorsFile[i].name = name]

Rank == [feed |-> 1, page |-> 2, search |-> 3]

\* whether the latest monitor_competitor call called a source, and the
\* number of updates the source returned
Tried(source) == \E i \in DOMAIN last.tried : last.tried[i].source = source
Yield(source) ==
    last.tried[CHOOSE i \in DOMAIN last.tried : last.tried[i].source = source].n

\* C12: monitor_competitor calls its sources in the order feed, page,
\* search, each at most once: the feed first when a feed URL is configured,
\* the page only if a page URL is configured and the feed gave fewer than 3
\* updates, the search only if the page was extracted and gave nothing; a
\* search that gives nothing leaves a call without new updates returning None.
C12_SourcePriority ==
    last.name # "" =>
        /\ \A i, j \in DOMAIN last.tried :
              i < j => Rank[last.tried[i].source] < Rank[last.tried[j].source]
        /\ Configured(last.name).rss_feed_url =>
              last.tried # <<>> /\ last.tried[1].source = "feed"
        /\ Tried("feed") => Configured(last.name).rss_feed_url
        /\ Tried("page") => /\ Configured(last.name).website_url
                            /\ Tried("feed") => Yield("feed") < FeedEnough
        /\ Tried("search") => Tried("page") /\ Yield("page") = 0
        /\ (Tried("search") /\ Yield("search") = 0 /\ ~last.hadNew) =>
              last.result = "none"

\* a call whose feed gave one update, whose page gave none and whose search
\* gave none either
C12_Witness ==
    /\ last.name # ""
    /\ [i \in DOMAIN last.tried |-> last.tried[i].source] = <<"feed", "page", "search">>
    /\ Yield("feed") = 1
    /\ Yield("search") = 0

\* C13: the candidate list of a monitor_competitor call never holds two
\* updates of different sources with the same title.
C13_NoTitleTwiceAcrossSources ==
    \A i, j \in DOMAIN last.updates :
        last.from[i] # last.from[j] => last.updates[i].title # last.updates[j].title

\* the step is a monitor_competitor call
CallStep == last'.name # "" /\ last'.ts = now' /\ now' # now

\* the persisted last_checked of the entity of the latest call
LastCallChecked == Configured(last.name).last_checked

\* C14: a monitor_competitor call whose candidates are all in the cache
\* returns None without raising, leaves trends.json as it was, and persists
\* the time of the call as the entity's last_checked.
C14_NoNewStillChecked ==
    [][ (CallStep /\ last'.ran /\ ~last'.hadNew) =>
            /\ last'.result = "none"
            /\ trendsFile' = trendsFile
            /\ LastCallChecked' = now' ]_vars

\* the latest call gathered candidates, found none of them new and the
\* entity's persisted last_checked is the time of that call
C14_Witness ==
    /\ last.name # "" /\ last.ts = now
    /\ last.updates # <<>> /\ last.ran /\ ~last.hadNew
    /\ LastCallChecked = now

\* the persisted last_checked of the entity monitor_all checked last
LastOutcomeChecked == Configured(outcomes[Len(outcomes)].name).last_checked

\* C15: every iteration of monitor_all's loop leaves the time of its
\* monitor_competitor call as the persisted last_checked of the entity it
\* checked, whatever the call's outcome.
C15_BatchAlwaysWritesLastChecked ==
    [][ Len(outcomes') = Len(outcomes) + 1 => LastOutcomeChecked' = now' ]_vars

\* C16: a monitor_competitor call on an entity that is disabled returns
\* None, calls no source and leaves content_cache.json, trends.json and
\* competitors.json, last_checked included, as they were.
C16_DisabledUntouched ==
    [][ (CallStep /\ ~Configured(last'.name).enabled) =>
            /\ last'.result = "none"
            /\ last'.tried = <<>>
            /\ cacheFile' = cacheFile
            /\ trendsFile' = trendsFile
            /\ competitorsFile' = competitorsFile ]_vars

\* the latest call was made on a disabled entity that earlier calls had
\* checked, and called no source
C16_Witness ==
    /\ last.name # "" /\ last.ts = now
    /\ ~Configured(last.name).enabled
    /\ Configured(last.name).last_checked # 0
    /\ last.tried = <<>>

\* an entity's configuration without its last_checked
Unchecked(competitor) == [competitor EXCEPT !.last_checked = 0]

\* C17: a monitor_competitor call changes nothing in competitors.json but
\* the last_checked of the entity it checked: every other field of every
\* entity keeps the value the file held just before the call wrote, also an
\* enabled flag that toggle_competitor changed while monitor_all was running.
C17_WritesOnlyLastChecked ==
    [][ CallStep =>
            /\ DOMAIN competitorsFile' = DOMAIN competitorsFile
            /\ \A i \in DOMAIN competitorsFile :
                  IF competitorsFile[i].name = last'.name
                  THEN Unchecked(competitorsFile'[i]) = Unchecked(competitorsFile[i])
                  ELSE competitorsFile'[i] = competitorsFile[i] ]_vars

\* C18: with record_finding running in the scheduler's thread and in the
\* main thread at once, the entry of every call that completed is in the
\* persisted history of its entity and the persisted impact counts add up
\* to the number of completed calls.
C18_NoFindingLost ==
    \A n \in Names :
        /\ \A k \in DOMAIN recLog[n] :
              /\ n \in DOMAIN trendsFile
              /\ recLog[n][k] \in Range(trendsFile[n].history)
        /\ ImpactTotal(n) = Len(recLog[n])

\* the titles the first tiers of the structured pass can give
ContainerTitles == Titles(Take(ext.page.containers, ContainerLimit)) \ {NoUpdate.title}
HeadingTitles == Titles(Take(ext.page.headings, HeadingLimit)) \ {NoUpdate.title}
ItemTitles == Titles(ext.page.items) \ {NoUpdate.title}

\* the number of updates after the first tier and after the first two
AfterContainers == Cardinality(ContainerTitles)
AfterHeadings ==
    IF AfterContainers < TierTwoBelow
    THEN Cardinality(ContainerTitles \cup HeadingTitles) ELSE AfterContainers

\* C19: in _extract_structured_content the result holds an update of the
\* heading tier only if the containers gave fewer than 3 updates, and an
\* update of the list tier only if fewer than 2 updates existed after the
\* tiers before it; a tier that is not run adds nothing.
C19_TierThresholds ==
    ext.op = "extract" =>
        /\ AfterContainers >= TierTwoBelow => Titles(ext.structured) \subseteq ContainerTitles
        /\ AfterHeadings >= TierThreeBelow =>
              Titles(ext.structured) \subseteq ContainerTitles \cup HeadingTitles

\* the containers gave 2 updates, so the headings were used and added one,
\* and the list items, whose titles are all new, were not
C19_Witness ==
    /\ ext.op = "extract"
    /\ AfterContainers = 2
    /\ Titles(ext.structured) \cap (HeadingTitles \ ContainerTitles) # {}
    /\ ItemTitles # {}
    /\ ItemTitles \cap (ContainerTitles \cup HeadingTitles) = {}

NoTitleTwice(updates) ==
    \A i, j \in DOMAIN updates : updates[i].title = updates[j].title => i = j

HasTitleTwice(found) ==
    \E i, j \in DOMAIN found : i # j /\ found[i].title = found[j].title

\* C20: the result of _extract_structured_content has at most 20 updates,
\* that of _aggressive_extraction at most 15, and neither holds two updates
\* with the same title; so does what extract_from_website returns.
C20_PassDeduplicatedAndCapped ==
    ext.op = "extract" =>
        /\ NoTitleTwice(ext.structured) /\ Len(ext.structured) <= StructuredCap
        /\ NoTitleTwice(ext.aggressive) /\ Len(ext.aggressive) <= AggressiveCap
        /\ NoTitleTwice(ext.result) /\ Len(ext.result) <= StructuredCap

\* both passes met a title twice and reached their cap
C20_Witness ==
    /\ ext.op = "extract"
    /\ HasTitleTwice(ext.page.containers) /\ HasTitleTwice(ext.page.headings)
    /\ Len(ext.structured) = StructuredCap
    /\ HasTitleTwice(ext.page.allHeadings)
    /\ Len(ext.aggressive) = AggressiveCap

\* C24: for every record of trends.json the activity trend is
\* "insufficient data" when its history has fewer than 20 entries and
\* "stable" when it has 20 or more, never "increasing" or "decreasing".
C24_ActivityTrend ==
    \A n \in DOMAIN trendsFile :
        /\ trendsFile[n].history # <<>>
        /\ activity_trend(trendsFile[n].history) =
              IF Len(trendsFile[n].history) < TrendWindow
              THEN "insufficient data" ELSE "stable"

\* a history of more than 20 entries, reported as stable
C24_Witness ==
    \E n \in DOMAIN trendsFile :
        /\ Len(trendsFile[n].history) > TrendWindow
        /\ activity_trend(trendsFile[n].history) = "stable"

\* C28: a record_finding call never raises, whether the entity has a record
\* in trends.json or not and whatever the impact and the terms of the
\* analysis; a call that raises would leave trends.json as it was.
C28_RecordFindingNeverRaises ==
    [][ step'.op = "record_finding" =>
            /\ ~step'.raised
            /\ step'.raised => trendsFile' = trendsFile ]_vars

\* feature_mentions of every name in trends.json (empty without a record)
MentionsOf ==
    [n \in Names |-> IF n \in DOMAIN trendsFile THEN trendsFile[n].feature_mentions
                     ELSE EmptyDict]

\* the positions <<i, j>> of the words of a list of feature strings
WordPositions(features) ==
    UNION { { <<i, j>> : j \in DOMAIN Split(features[i]) } : i \in DOMAIN features }

WordAt(features, pos) == Split(features[pos[1]])[pos[2]]

\* the number of words of the feature strings that are longer than 4
\* characters, are no stopword of record_finding and, lower-cased, are term
Occurrences(term, features) ==
    Cardinality({ pos \in WordPositions(features) :
                    /\ Len(WordAt(features, pos)) > MinTermLen
                    /\ Lower(WordAt(features, pos)) \notin RecordStopwords
                    /\ Lower(WordAt(features, pos)) = term })

\* C25: a record_finding call raises the count of every term by the number
\* of qualifying occurrences of the term in the feature strings of the
\* analysis, and leaves the count of every other term as it was.
C25_TermCountsGrowByOccurrences ==
    [][ step'.op = "record_finding" =>
            LET features == step'.analysis.key_features
                before   == MentionsOf[step'.name]
                after    == MentionsOf'[step'.name]
                words    == { Lower(WordAt(features, pos)) : pos \in WordPositions(features) }
            IN  \A term \in DOMAIN before \cup DOMAIN after \cup words :
                    Get(after, term, 0) = Get(before, term, 0) + Occurrences(term, features)
      ]_vars

\* the feature strings of a list of history entries, with their positions
EntryFeatures(entries) ==
    UNION { { <<e, i>> : i \in DOMAIN entries[e].key_features } : e \in DOMAIN entries }

\* the number of words of the entries' feature strings that, lower-cased,
\* are kw
RecentOccurrences(kw, entries) ==
    Cardinality({ p \in UNION { { <<ef[1], ef[2], j>> :
                                    j \in DOMAIN Split(entries[ef[1]].key_features[ef[2]]) } :
                                ef \in EntryFeatures(entries) } :
                    Lower(Split(entries[p[1]].key_features[p[2]])[p[3]]) = kw })

\* C26: the terms get_competitor_trends tallies for recent_focus are
\* exactly the terms record_finding counts for the feature strings of the
\* 10 most recent history entries, each tallied over those entries only;
\* recent_focus holds at most 5 of them, those of the highest tallies, in
\* non-increasing order of tally.
C26_RecentFocusSameRule ==
    \A n \in DOMAIN trendsFile :
        LET history == trendsFile[n].history
            recent  == Recent(history)
            counted == UNION { Terms(recent[ef[1]].key_features[ef[2]]) :
                                 ef \in EntryFeatures(recent) }
            freq    == keyword_freq(history)
            focus   == get_competitor_trends(trendsFile, n).recent_focus
        IN  /\ { freq[i].kw : i \in DOMAIN freq } = counted
            /\ \A i \in DOMAIN freq : freq[i].n = RecentOccurrences(freq[i].kw, recent)
            /\ Len(focus) <= FocusLimit
            /\ \A i, j \in DOMAIN focus : i < j => focus[i].n >= focus[j].n
            /\ Range(focus) \subseteq Range(freq)
            /\ \A x \in Range(freq) \ Range(focus), y \in Range(focus) : y.n >= x.n

\* C27: reset_cache(confirm=False) changes none of the three files;
\* reset_cache(confirm=True) empties content_cache.json and leaves
\* trends.json and competitors.json as they were; and no step of any tool
\* removes a record of trends.json.
C27_ResetKeepsTrends ==
    [][ /\ step'.op = "reset_cache" =>
              /\ trendsFile' = trendsFile
              /\ competitorsFile' = competitorsFile
              /\ cacheFile' = IF step'.confirm THEN EmptyDict ELSE cacheFile
        /\ \A n \in DOMAIN trendsFile :
              /\ n \in DOMAIN trendsFile'
              /\ Len(trendsFile'[n].history) >= Len(trendsFile[n].history) ]_vars

\* a confirmed reset has emptied the cache of an entity with a trend record
C27_Witness ==
    /\ step.op = "reset_cache" /\ step.confirm
    /\ cacheFile = EmptyDict
    /\ trendsFile # EmptyDict

\* the entry of every name in content_cache.json, as a list of at most one
CacheEntries ==
    [n \in Names |-> IF CacheKey(n) \in DOMAIN cacheFile
                     THEN << cacheFile[CacheKey(n)] >> ELSE <<>>]

\* C29: with the engine of monitor_all and the engine of an interactive
\* check live at once, or a reset_cache between two checks of monitor_all,
\* a monitor_competitor call changes no entry of content_cache.json but that
\* of the entity it checked: it neither drops the entry another engine
\* committed for another entity nor re-creates an entry reset_cache cleared.
C29_CommitKeepsOtherEntries ==
    [][ CallStep =>
            \A n \in Names \ {last'.name} : CacheEntries'[n] = CacheEntries[n] ]_vars

\* the history of every name in trends.json (empty without a record)
HistoryOf ==
    [n \in Names |-> IF n \in DOMAIN trendsFile THEN trendsFile[n].history ELSE <<>>]

\* C30: a monitor_competitor call returns a Finding exactly when it appends
\* one entry, that of this call, to the history of the entity it checked;
\* the Finding holds the first max_updates_per_competitor of the new updates
\* in input order, and by then the cache entry of the entity holds the
\* fingerprints of all candidates; a call without a Finding appends nothing,
\* so that every entity has as many history entries as Findings returned.
C30_FindingMeansRecorded ==
    [][ CallStep =>
            /\ (last'.result = "finding") <=> (last'.finding # <<>>)
            /\ last'.finding # <<>> =>
                  /\ last'.finding[1].competitor = last'.name
                  /\ last'.finding[1].updates =
                        Take(_filter_new_updates(cacheFile, last'.name, last'.updates),
                             max_updates_per_competitor)
                  /\ last'.finding[1].updates # <<>>
                  /\ HistoryOf'[last'.name] =
                        Append(HistoryOf[last'.name], MkEntry(now', last'.finding[1].analysis))
                  /\ CacheEntries'[last'.name] =
                        << Take(UpdateHashes(last'.updates), CacheLimit) >>
            /\ \A n \in Names :
                  (last'.finding = <<>> \/ n # last'.name) => HistoryOf'[n] = HistoryOf[n]
            /\ \A n \in Names : Len(recLog'[n]) = Len(HistoryOf'[n]) ]_vars

\* a Finding of 5 updates out of 6 new candidates
C30_Witness ==
    /\ last.finding # <<>>
    /\ Len(last.finding[1].updates) = max_updates_per_competitor
    /\ Len(last.updates) > max_updates_per_competitor
    /\ Len(HistoryOf[last.name]) = Len(recLog[last.name])
    /\ CacheEntries[last.name] = << UpdateHashes(last.updates) >>

\* C21: a fetched page with no container, no heading and no list item of
\* the structured pass, and with at least one div of 20 to 500 characters
\* of plain text, gives at least one Update.
C21_PlainDivIsFound ==
    ( /\ ext.op = "extract"
      /\ ext.fetched
      /\ ext.page.containers = <<>>
      /\ ext.page.headings = <<>>
      /\ ext.page.items = <<>>
      /\ \E i \in DOMAIN ext.page.divs : ext.page.divs[i] # NoUpdate )
    => ext.result # <<>>

\* the Updates the latest call created
Created == IF "created" \in DOMAIN ext THEN ext.created ELSE <<>>

\* C22: every Update created by the feed, by a container, a heading or a
\* list item, by the fallback pass or by the search has a title that is
\* not empty once stripped.
C22_TitleNotEmpty ==
    \A i \in DOMAIN Created : strip(Created[i].title) # <<>>

\* C23: every Update created has a content of at most 1200 characters, and
\* every Update of the feed a content of at most 800, also when the content
\* is the title.
C23_ContentBounded ==
    \A i \in DOMAIN Created :
        /\ Len(Created[i].content) <= ContentCap
        /\ ext.op = "extract_from_rss" => Len(Created[i].content) <= FeedContentCap

====
